---------------------------- MODULE Spec2Model ----------------------------
(***************************************************************************)
(* A model of msgparse/utils.py: the sequence utilities (first,            *)
(* filterdict, unique), the immutable record factory, the emoticon         *)
(* pattern and the streaming markup iterator HTML.iter.                    *)
(*                                                                         *)
(* Each component has its own specification (SpecUnique, SpecFirst, ...)   *)
(* over its own variables; the variables of the other components stay at   *)
(* their idle values.                                                      *)
(***************************************************************************)
EXTENDS Integers, Sequences, FiniteSets

VARIABLES
  \* ---- unique(unique(xs, key), key), pulled by one consumer
  xs,      \* the finite input sequence
  keyf,    \* the key function, by name
  pos,     \* how many elements of xs the inner generator has taken
  pc,      \* pc[i]: where generator i stands (1 inner, 2 outer)
  seen,    \* seen[i]: the local set `seen` of generator i
  out,     \* out[i]: the elements generator i has yielded so far
  \* ---- first(iterable, or_)
  fArg,    \* the argument: a list, an iterator over items, or a counter
  fOr,     \* the or_ argument
  fRet,    \* what the call produced
  fPc,
  \* ---- filterdict(d, func)
  dD,      \* the mapping d: its items in iteration order
  dFunc,   \* func, by name
  dRet,    \* the mapping returned
  dPc,
  \* ---- immutable called twice, and r1 == r2
  iArgs,   \* the two calls' arguments
  iRecs,   \* the records built so far
  iEq,     \* the outcome of iRecs[1] == iRecs[2]
  \* ---- Pattern.emoticon.findall(text)
  eText, ePos, eMatches, eStarts, ePc,
  \* ---- HTML.iter(content), pulled by one consumer
  hContent, hCtx, hOut, hPc

uvars == <<xs, keyf, pos, pc, seen, out>>
fvars == <<fArg, fOr, fRet, fPc>>
dvars == <<dD, dFunc, dRet, dPc>>
ivars == <<iArgs, iRecs, iEq>>
evars == <<eText, ePos, eMatches, eStarts, ePc>>
hvars == <<hContent, hCtx, hOut, hPc>>
vars == <<uvars, fvars, dvars, ivars, evars, hvars>>

\* What an action of one component leaves alone.
notU == <<fvars, dvars, ivars, evars, hvars>>
notF == <<uvars, dvars, ivars, evars, hvars>>
notD == <<uvars, fvars, ivars, evars, hvars>>
notI == <<uvars, fvars, dvars, evars, hvars>>
notE == <<uvars, fvars, dvars, ivars, hvars>>
notH == <<uvars, fvars, dvars, ivars, evars>>

(***************************************************************************)
(* Bounds of the model.                                                    *)
(***************************************************************************)
MaxElem == 3
MaxLen == 4

Elems == 1..MaxElem
Inputs == UNION {[1..n -> Elems] : n \in 0..MaxLen}

(***************************************************************************)
(* ident and the key functions handed to unique.                           *)
(***************************************************************************)
ident(f) == f

KeyNames == {"ident", "mod2", "half"}

Key(f, x) ==
  CASE f = "ident" -> ident(x)
    [] f = "mod2" -> x % 2
    [] f = "half" -> x \div 2

(***************************************************************************)
(* unique: one pass of the loop body on elem, with the local set s.        *)
(*     k = key(elem); if k in seen: continue; seen.add(k); yield elem      *)
(***************************************************************************)
\* Variants of the loop body, each a slip the properties below must tell
\* from the code: the key is never recorded; the key is yielded in place of
\* the element; the element is looked up in `seen` in place of its key.
UniqueBodyNoAdd(f, s, elem) ==
  LET k == Key(f, elem) IN
  IF k \in s THEN [seen |-> s, yield |-> <<>>]
             ELSE [seen |-> s, yield |-> <<elem>>]

UniqueBodyYieldKey(f, s, elem) ==
  LET k == Key(f, elem) IN
  IF k \in s THEN [seen |-> s, yield |-> <<>>]
             ELSE [seen |-> s \cup {k}, yield |-> <<k>>]

UniqueBodyElemSeen(f, s, elem) ==
  LET k == Key(f, elem) IN
  IF elem \in s THEN [seen |-> s, yield |-> <<>>]
                ELSE [seen |-> s \cup {k}, yield |-> <<elem>>]

UniqueBody(f, s, elem) ==
  LET k == Key(f, elem) IN
  IF k \in s THEN [seen |-> s, yield |-> <<>>]
             ELSE [seen |-> s \cup {k}, yield |-> <<elem>>]

\* A variant that does not suspend at the yield and runs on.
RunBodyEager(i, elem) ==
  LET r == UniqueBody(keyf, seen[i], elem) IN
  /\ seen' = [seen EXCEPT ![i] = r.seen]
  /\ out' = [out EXCEPT ![i] = @ \o r.yield]
  /\ pc' = [pc EXCEPT ![i] = "running"]

\* Generator i runs the loop body on elem: it yields (and suspends) or goes
\* back to the head of its for loop.
RunBody(i, elem) ==
  LET r == UniqueBody(keyf, seen[i], elem) IN
  /\ seen' = [seen EXCEPT ![i] = r.seen]
  /\ out' = [out EXCEPT ![i] = @ \o r.yield]
  /\ pc' = [pc EXCEPT ![i] = IF r.yield = <<>> THEN "running" ELSE "suspended"]

\* The consumer calls next(g) on the outer generator.
Pull ==
  /\ pc[2] \in {"created", "suspended"}
  /\ pc' = [pc EXCEPT ![2] = "running"]
  /\ UNCHANGED <<xs, keyf, pos, seen, out, notU>>

\* The inner generator at `for elem in iterable`, the iterable being xs.
Step1 ==
  /\ pc[1] = "running"
  /\ IF pos = Len(xs)
       THEN /\ pc' = [pc EXCEPT ![1] = "done"]
            /\ UNCHANGED <<pos, seen, out>>
       ELSE /\ pos' = pos + 1
            /\ RunBody(1, xs[pos + 1])
  /\ UNCHANGED <<xs, keyf, notU>>

\* The outer generator at `for elem in iterable`: it calls next() on the
\* inner generator and waits for it.
Step2 ==
  /\ pc[2] = "running"
  /\ pc[1] \in {"created", "suspended"}
  /\ pc' = [pc EXCEPT ![1] = "running", ![2] = "waiting"]
  /\ UNCHANGED <<xs, keyf, pos, seen, out, notU>>

\* The inner generator has answered: an element, or StopIteration which ends
\* the outer for loop.
Resume2 ==
  /\ pc[2] = "waiting"
  /\ pc[1] \in {"suspended", "done"}
  /\ IF pc[1] = "done"
       THEN /\ pc' = [pc EXCEPT ![2] = "done"]
            /\ UNCHANGED <<seen, out>>
       ELSE RunBody(2, out[1][Len(out[1])])
  /\ UNCHANGED <<xs, keyf, pos, notU>>

uNext == Pull \/ Step1 \/ Step2 \/ Resume2

(***************************************************************************)
(* first(iterable, or_) == next(iterable, or_).  The builtin next() takes  *)
(* an iterator: handed a list it raises TypeError.  An iterator is a       *)
(* cursor `at` over items; a counter is an endless generator at, at+1, ... *)
(***************************************************************************)
PyNone == -1

Defaults == {PyNone, 0, 42}

FirstArgs ==
  {[kind |-> k, items |-> s, at |-> 0] : k \in {"list", "iterator"}, s \in Inputs}
  \cup {[kind |-> "counter", items |-> <<>>, at |-> n] : n \in Elems}

PyNext(it, default) ==
  CASE it.kind = "list" ->
         [raised |-> "TypeError", value |-> PyNone, it |-> it]
    [] it.kind = "iterator" ->
         IF it.at < Len(it.items)
           THEN [raised |-> "", value |-> it.items[it.at + 1],
                 it |-> [it EXCEPT !.at = @ + 1]]
           ELSE [raised |-> "", value |-> default, it |-> it]
    [] it.kind = "counter" ->
         [raised |-> "", value |-> it.at, it |-> [it EXCEPT !.at = @ + 1]]

first(iterable, or_) == PyNext(iterable, or_)

FirstCall ==
  /\ fPc = "idle"
  /\ LET r == first(fArg, fOr) IN
       /\ fArg' = r.it
       /\ fRet' = [raised |-> r.raised, value |-> r.value]
       /\ fPc' = IF r.raised = "" THEN "returned" ELSE "raised"
  /\ UNCHANGED <<fOr, notF>>

fNext == FirstCall

(***************************************************************************)
(* filterdict(d, func): { k : v for k, v in d.items() if func(v) }.  A     *)
(* mapping is the sequence of its items <<k, v>> in iteration order, with  *)
(* distinct keys.                                                          *)
(***************************************************************************)
MaxKeys == 3

DictKeys == 1..MaxKeys
DictVals == {0 - 1, 0, 1}

Injective(s) == \A i, j \in DOMAIN s : s[i] = s[j] => i = j

Dicts ==
  UNION {{[i \in 1..n |-> <<ks[i], vs[i]>>] :
            ks \in {s \in [1..n -> DictKeys] : Injective(s)},
            vs \in [1..n -> DictVals]} : n \in 0..MaxKeys}

FuncNames == {"ident", "positive"}

\* func(v) taken as a condition: the truth value of what func returns.
Truthy(f, v) ==
  CASE f = "ident" -> ident(v) # 0
    [] f = "positive" -> v > 0

\* m[k] = v on a mapping under construction.
DictSetItem(m, k, v) ==
  IF \E i \in DOMAIN m : m[i][1] = k
    THEN [i \in DOMAIN m |-> IF m[i][1] = k THEN <<k, v>> ELSE m[i]]
    ELSE Append(m, <<k, v>>)

RECURSIVE Comprehend(_, _, _)
Comprehend(items, f, acc) ==
  IF items = <<>> THEN acc
  ELSE LET e == Head(items) IN
       Comprehend(Tail(items), f,
                  IF Truthy(f, e[2]) THEN DictSetItem(acc, e[1], e[2]) ELSE acc)

\* A variant that filters d itself and returns it.
filterdictInPlace(d, func) ==
  LET r == Comprehend(d, func, <<>>) IN [ret |-> r, d |-> r]

\* The call's outcome: the mapping returned and d as the call leaves it.
filterdict(d, func) ==
  [ret |-> Comprehend(d, func, <<>>), d |-> d]

FilterCall ==
  /\ dPc = "idle"
  /\ LET r == filterdict(dD, dFunc) IN
       /\ dRet' = r.ret
       /\ dD' = r.d
  /\ dPc' = "returned"
  /\ UNCHANGED <<dFunc, notD>>

dNext == FilterCall

(***************************************************************************)
(* immutable(clazz_name, attrs): namedtuple(clazz_name, attrs.keys())     *)
(* makes a new tuple class whose fields are the keywords in the order they *)
(* were passed; calling clazz gives the tuple of their values in that      *)
(* order.                                                                  *)
(* A namedtuple compares as the tuple it is.                               *)
(***************************************************************************)
MaxFields == 2

ClassNames == {"A", "B"}
FieldNames == {"f1", "f2", "f3"}
FieldVals == 1..2

Kwargs ==
  UNION {{[i \in 1..n |-> <<ks[i], vs[i]>>] :
            ks \in {s \in [1..n -> FieldNames] : Injective(s)},
            vs \in [1..n -> FieldVals]} : n \in 0..MaxFields}

namedtuple(typename, field_names) ==
  [name |-> typename, fields |-> field_names]

AttrOf(attrs, fld) ==
  LET i == CHOOSE j \in DOMAIN attrs : attrs[j][1] = fld IN attrs[i][2]

immutable(clazz_name, attrs) ==
  LET clazz == namedtuple(clazz_name, [i \in DOMAIN attrs |-> attrs[i][1]]) IN
  [cls |-> clazz, vals |-> [i \in DOMAIN clazz.fields |-> AttrOf(attrs, clazz.fields[i])]]

\* r1 == r2: tuple equality, element by element.
TupleEq(r1, r2) == r1.vals = r2.vals

Build ==
  /\ Len(iRecs) < 2
  /\ LET a == iArgs[Len(iRecs) + 1] IN
       iRecs' = Append(iRecs, immutable(a.name, a.attrs))
  /\ UNCHANGED <<iArgs, iEq, notI>>

Compare ==
  /\ Len(iRecs) = 2
  /\ iEq = "unset"
  /\ iEq' = IF TupleEq(iRecs[1], iRecs[2]) THEN "True" ELSE "False"
  /\ UNCHANGED <<iArgs, iRecs, notI>>

iNext == Build \/ Compare

(***************************************************************************)
(* Pattern.emoticon = (?<=[(])[a-zA-Z0-9]{1,15}(?=[)]) and its findall.    *)
(* A text is a sequence of characters; offsets count from 0 as in re.      *)
(***************************************************************************)
MaxTok == 15
MinTok == 1
MaxSegs == 5

IsAlnum(c) == c \in {"a", "b"}

\* The pieces the texts are put together from: the two parentheses, a
\* character outside [a-zA-Z0-9], one letter, the emoticon (a), and a run of
\* MaxTok letters.
Segs == {<<"(">>, <<")">>, <<" ">>, <<"a">>, <<"(", "a", ")">>,
         [i \in 1..MaxTok |-> "b"]}

\* The text made of the pieces ss, in order.
RECURSIVE Flatten(_)
Flatten(ss) == IF ss = <<>> THEN <<>> ELSE Head(ss) \o Flatten(Tail(ss))

\* (?<=[(]) at offset p: the character before the offset is "(".
LookBehind(text, p) == p > 0 /\ text[p] = "("

\* (?=[)]) at offset p: the character at the offset is ")".
LookAhead(text, p) == p < Len(text) /\ text[p + 1] = ")"

\* How many characters of [a-zA-Z0-9] stand at offset p and after.
RECURSIVE AlnumRun(_, _)
AlnumRun(text, p) ==
  IF p < Len(text) /\ IsAlnum(text[p + 1]) THEN 1 + AlnumRun(text, p + 1) ELSE 0

SetMax(S) == CHOOSE n \in S : \A m \in S : m <= n

Min2(a, b) == IF a < b THEN a ELSE b

\* A variant without the upper bound of the repetition.
EmoticonMatchAtUnbounded(text, p) ==
  IF ~LookBehind(text, p) THEN 0
  ELSE LET run == AlnumRun(text, p)
           fits == {n \in MinTok..run : LookAhead(text, p + n)}
       IN IF fits = {} THEN 0 ELSE SetMax(fits)

\* The length of the match of the pattern at offset p, 0 when there is none:
\* the greedy {1,15} takes the longest run it can and gives characters back
\* until the lookahead holds.
EmoticonMatchAt(text, p) ==
  IF ~LookBehind(text, p) THEN 0
  ELSE LET run == AlnumRun(text, p)
           fits == {n \in MinTok..Min2(MaxTok, run) : LookAhead(text, p + n)}
       IN IF fits = {} THEN 0 ELSE SetMax(fits)

\* One round of findall's scan: a match at ePos is recorded and the scan
\* goes on at its end; with none the scan moves one character on.
Scan ==
  /\ ePc = "scan"
  /\ IF ePos > Len(eText)
       THEN /\ ePc' = "done"
            /\ UNCHANGED <<ePos, eMatches, eStarts>>
       ELSE LET n == EmoticonMatchAt(eText, ePos) IN
            /\ ePc' = "scan"
            /\ IF n > 0
                 THEN /\ eMatches' = Append(eMatches, SubSeq(eText, ePos + 1, ePos + n))
                      /\ eStarts' = Append(eStarts, ePos)
                      /\ ePos' = ePos + n
                 ELSE /\ ePos' = ePos + 1
                      /\ UNCHANGED <<eMatches, eStarts>>
  /\ UNCHANGED <<eText, notE>>

eNext == Scan

(***************************************************************************)
(* HTML.iter(content): lxml.etree.iterparse(BytesIO(content),              *)
(* recover=True, html=True), each (action, elem) it gives yielded as elem. *)
(* The content is shorter than the chunk iterparse reads, so the first     *)
(* request for an event parses all of it.  The engine is modelled on the   *)
(* contents the model draws: the empty byte string and tag-free text.      *)
(***************************************************************************)
MaxContent == 4

TextBytes == {"h", "i", "!"}
Contents == UNION {[1..n -> TextBytes] : n \in 0..MaxContent}

Element(tag, text) == [tag |-> tag, text |-> text]

\* The engine on a whole buffer.  With nothing fed, closing the parser
\* raises XMLSyntaxError ("no element found").  Text outside any element is
\* put by the recovering HTML parser into html/body/p, and the default
\* events are the "end" events, innermost element first.
iterparse(content) ==
  IF content = <<>>
    THEN [error |-> "XMLSyntaxError", events |-> <<>>]
    ELSE [error |-> "",
          events |-> <<Element("p", content), Element("body", <<>>),
                       Element("html", <<>>)>>]

\* The consumer calls next() on the generator.
HPull ==
  /\ hPc \in {"created", "suspended"}
  /\ hPc' = "running"
  /\ UNCHANGED <<hContent, hCtx, hOut, notH>>

\* `for action, elem in context: yield elem`: the generator asks the context
\* for its next event.  An error of the engine goes through the generator to
\* the consumer: the code catches nothing.
HStep ==
  /\ hPc = "running"
  /\ LET r == iterparse(hContent)
         pending == IF hCtx.parsed THEN hCtx.events ELSE r.events
     IN IF ~hCtx.parsed /\ r.error # ""
          THEN /\ hPc' = "raised"
               /\ hCtx' = [parsed |-> TRUE, events |-> <<>>]
               /\ UNCHANGED hOut
          ELSE IF pending = <<>>
            THEN /\ hPc' = "done"
                 /\ hCtx' = [parsed |-> TRUE, events |-> <<>>]
                 /\ UNCHANGED hOut
            ELSE /\ hPc' = "suspended"
                 /\ hOut' = Append(hOut, Head(pending))
                 /\ hCtx' = [parsed |-> TRUE, events |-> Tail(pending)]
  /\ UNCHANGED <<hContent, notH>>

hNext == HPull \/ HStep

(***************************************************************************)
(* The specifications, one per component.  In each the variables of the    *)
(* other components hold their idle values.                                *)
(***************************************************************************)
\* g = unique(unique(xs, key), key): calling a generator function runs none
\* of its body.
InitUnique ==
  /\ fArg = [kind |-> "list", items |-> <<>>, at |-> 0] /\ fOr = PyNone
  /\ fRet = [raised |-> "", value |-> PyNone] /\ fPc = "idle"
  /\ dD = <<>> /\ dFunc = "ident" /\ dRet = <<>> /\ dPc = "idle"
  /\ iArgs = <<>> /\ iRecs = <<>> /\ iEq = "unset"
  /\ eText = <<>> /\ ePos = 0 /\ eMatches = <<>> /\ eStarts = <<>> /\ ePc = "idle"
  /\ hContent = <<>> /\ hCtx = [parsed |-> FALSE, events |-> <<>>]
  /\ hOut = <<>> /\ hPc = "idle"
  /\ xs \in Inputs
  /\ keyf \in KeyNames
  /\ pos = 0
  /\ pc = [i \in 1..2 |-> "created"]
  /\ seen = [i \in 1..2 |-> {}]
  /\ out = [i \in 1..2 |-> <<>>]

SpecUnique == InitUnique /\ [][uNext]_vars

\* A generator that has been asked for an element runs until it yields or
\* ends: Python runs it on the caller's thread.
FairSpecUnique == SpecUnique /\ WF_vars(Step1 \/ Step2 \/ Resume2)

\* Before the call first(fArg, fOr).
InitFirst ==
  /\ xs = <<>> /\ keyf = "ident" /\ pos = 0
  /\ pc = [i \in 1..2 |-> "created"]
  /\ seen = [i \in 1..2 |-> {}]
  /\ out = [i \in 1..2 |-> <<>>]
  /\ dD = <<>> /\ dFunc = "ident" /\ dRet = <<>> /\ dPc = "idle"
  /\ iArgs = <<>> /\ iRecs = <<>> /\ iEq = "unset"
  /\ eText = <<>> /\ ePos = 0 /\ eMatches = <<>> /\ eStarts = <<>> /\ ePc = "idle"
  /\ hContent = <<>> /\ hCtx = [parsed |-> FALSE, events |-> <<>>]
  /\ hOut = <<>> /\ hPc = "idle"
  /\ fArg \in FirstArgs
  /\ fOr \in Defaults
  /\ fRet = [raised |-> "", value |-> PyNone]
  /\ fPc = "idle"

SpecFirst == InitFirst /\ [][fNext]_vars

\* Before the call filterdict(dD, dFunc).
InitFilterdict ==
  /\ xs = <<>> /\ keyf = "ident" /\ pos = 0
  /\ pc = [i \in 1..2 |-> "created"]
  /\ seen = [i \in 1..2 |-> {}]
  /\ out = [i \in 1..2 |-> <<>>]
  /\ fArg = [kind |-> "list", items |-> <<>>, at |-> 0] /\ fOr = PyNone
  /\ fRet = [raised |-> "", value |-> PyNone] /\ fPc = "idle"
  /\ iArgs = <<>> /\ iRecs = <<>> /\ iEq = "unset"
  /\ eText = <<>> /\ ePos = 0 /\ eMatches = <<>> /\ eStarts = <<>> /\ ePc = "idle"
  /\ hContent = <<>> /\ hCtx = [parsed |-> FALSE, events |-> <<>>]
  /\ hOut = <<>> /\ hPc = "idle"
  /\ dD \in Dicts
  /\ dFunc \in FuncNames
  /\ dRet = <<>>
  /\ dPc = "idle"

SpecFilterdict == InitFilterdict /\ [][dNext]_vars

\* Before the two calls of immutable.
InitImmutable ==
  /\ xs = <<>> /\ keyf = "ident" /\ pos = 0
  /\ pc = [i \in 1..2 |-> "created"]
  /\ seen = [i \in 1..2 |-> {}]
  /\ out = [i \in 1..2 |-> <<>>]
  /\ fArg = [kind |-> "list", items |-> <<>>, at |-> 0] /\ fOr = PyNone
  /\ fRet = [raised |-> "", value |-> PyNone] /\ fPc = "idle"
  /\ dD = <<>> /\ dFunc = "ident" /\ dRet = <<>> /\ dPc = "idle"
  /\ eText = <<>> /\ ePos = 0 /\ eMatches = <<>> /\ eStarts = <<>> /\ ePc = "idle"
  /\ hContent = <<>> /\ hCtx = [parsed |-> FALSE, events |-> <<>>]
  /\ hOut = <<>> /\ hPc = "idle"
  /\ iArgs \in {<<[name |-> n1, attrs |-> a1], [name |-> n2, attrs |-> a2]>> :
                  n1 \in ClassNames, n2 \in ClassNames, a1 \in Kwargs, a2 \in Kwargs}
  /\ iRecs = <<>>
  /\ iEq = "unset"

SpecImmutable == InitImmutable /\ [][iNext]_vars

\* findall starts its scan at offset 0.
InitEmoticon ==
  /\ xs = <<>> /\ keyf = "ident" /\ pos = 0
  /\ pc = [i \in 1..2 |-> "created"]
  /\ seen = [i \in 1..2 |-> {}]
  /\ out = [i \in 1..2 |-> <<>>]
  /\ fArg = [kind |-> "list", items |-> <<>>, at |-> 0] /\ fOr = PyNone
  /\ fRet = [raised |-> "", value |-> PyNone] /\ fPc = "idle"
  /\ dD = <<>> /\ dFunc = "ident" /\ dRet = <<>> /\ dPc = "idle"
  /\ iArgs = <<>> /\ iRecs = <<>> /\ iEq = "unset"
  /\ hContent = <<>> /\ hCtx = [parsed |-> FALSE, events |-> <<>>]
  /\ hOut = <<>> /\ hPc = "idle"
  /\ \E n \in 0..MaxSegs : \E ss \in [1..n -> Segs] : eText = Flatten(ss)
  /\ ePos = 0
  /\ eMatches = <<>>
  /\ eStarts = <<>>
  /\ ePc = "scan"

SpecEmoticon == InitEmoticon /\ [][eNext]_vars

\* g = HTML.iter(content): calling a generator function runs none of its
\* body, so no context exists yet.
InitHtml ==
  /\ xs = <<>> /\ keyf = "ident" /\ pos = 0
  /\ pc = [i \in 1..2 |-> "created"]
  /\ seen = [i \in 1..2 |-> {}]
  /\ out = [i \in 1..2 |-> <<>>]
  /\ fArg = [kind |-> "list", items |-> <<>>, at |-> 0] /\ fOr = PyNone
  /\ fRet = [raised |-> "", value |-> PyNone] /\ fPc = "idle"
  /\ dD = <<>> /\ dFunc = "ident" /\ dRet = <<>> /\ dPc = "idle"
  /\ iArgs = <<>> /\ iRecs = <<>> /\ iEq = "unset"
  /\ eText = <<>> /\ ePos = 0 /\ eMatches = <<>> /\ eStarts = <<>> /\ ePc = "idle"
  /\ hContent \in Contents
  /\ hCtx = [parsed |-> FALSE, events |-> <<>>]
  /\ hOut = <<>>
  /\ hPc = "created"

SpecHtml == InitHtml /\ [][hNext]_vars

(***************************************************************************)
(* Properties.                                                             *)
(***************************************************************************)

\* The indices of s whose key occurs at no earlier index.
FirstIdxs(s, f) ==
  {i \in DOMAIN s : \A j \in 1..(i - 1) : Key(f, s[j]) # Key(f, s[i])}

\* The k-th smallest member of the set of indices I.
NthIdx(I, k) == CHOOSE i \in I : Cardinality({j \in I : j <= i}) = k

\* The subsequence of s made of the first occurrence of each key.
FirstOccurrences(s, f) ==
  LET I == FirstIdxs(s, f) IN
  [k \in 1..Cardinality(I) |-> s[NthIdx(I, k)]]

\* C1: at every point of consuming unique(xs, key), and of consuming
\* unique(unique(xs, key), key), no two elements yielded so far have equal
\* keys.
C1_NoEqualKeys ==
  \A i \in 1..2 : \A a, b \in DOMAIN out[i] :
    a # b => Key(keyf, out[i][a]) # Key(keyf, out[i][b])

\* C1's case: under a key that is not the identity, two elements have been
\* yielded and a duplicate has been dropped on the way.
C1_Witness ==
  /\ keyf = "mod2"
  /\ pc[1] = "suspended"
  /\ Len(out[1]) = 2
  /\ pos > 2

\* C2: the fully consumed output of unique(xs, key) is the subsequence of xs
\* made of the first occurrence of each distinct key, in the order of xs, and
\* its length is the number of distinct keys.
C2_FirstOccurrences ==
  pc[1] = "done" =>
    /\ out[1] = FirstOccurrences(xs, keyf)
    /\ Len(out[1]) = Cardinality({Key(keyf, xs[i]) : i \in DOMAIN xs})

\* C2's case: an exhausted input in which a later duplicate of a key was
\* dropped between two kept elements.
C2_Witness ==
  /\ pc[1] = "done"
  /\ Len(xs) = MaxLen
  /\ Len(out[1]) >= 2
  /\ \E i \in 2..(Len(xs) - 1) :
       /\ i \notin FirstIdxs(xs, keyf)
       /\ (i + 1) \in FirstIdxs(xs, keyf)

\* C3: unique(unique(xs, key), key) produces, element for element, the
\* sequence unique(xs, key) produces: whenever the outer generator has
\* answered its consumer it has yielded exactly what the inner one has.
C3_Idempotent ==
  pc[2] \in {"suspended", "done"} => out[2] = out[1]

\* C3's case: both generators are exhausted, on an input with duplicates that
\* left at least two elements.
C3_Witness ==
  /\ pc[2] = "done"
  /\ pc[1] = "done"
  /\ keyf = "half"
  /\ Len(out[2]) >= 2
  /\ Len(xs) > Len(out[2])

\* C6: unique is demand-driven.  Nothing of the input is consumed before the
\* first pull; what has been consumed never reaches past the next element
\* with an unseen key, and stands exactly at the element just yielded when
\* the generator is suspended; one pull yields at most one element; while no
\* pull is being served nothing is consumed and nothing changes; the set
\* `seen` is the set of the keys of the elements consumed; and every pull is
\* answered (an element or the end).
C6_DemandDriven ==
  /\ [](pc[1] = "created" => pos = 0 /\ seen[1] = {})
  /\ [](pc[2] = "created" => pos = 0 /\ pc[1] = "created")
  /\ [](Cardinality({i \in FirstIdxs(xs, keyf) : i <= pos}) = Len(out[1]))
  /\ [](pc[1] = "suspended" => pos \in FirstIdxs(xs, keyf))
  /\ [](seen[1] = {Key(keyf, xs[i]) : i \in 1..pos})
  /\ [][\A i \in 1..2 : Len(out'[i]) > Len(out[i]) =>
          /\ Len(out'[i]) = Len(out[i]) + 1
          /\ pc'[i] = "suspended"]_vars
  /\ [][pc[1] # "running" => pos' = pos /\ seen'[1] = seen[1]]_vars
  /\ [][pc[2] \in {"created", "suspended", "done"} =>
          pos' = pos /\ seen' = seen /\ out' = out]_vars
  /\ (pc[2] = "running" ~> pc[2] \in {"suspended", "done"})

\* C6's case: the consumer has pulled twice and stopped, and the input has
\* elements left that were never consumed.
C6_Witness ==
  /\ pc[2] = "suspended"
  /\ Len(out[2]) = 2
  /\ pos > 2
  /\ pos < Len(xs)

\* C7: first returns the first value of the sequence it is given, or the
\* default when the sequence is empty, raises nothing, and takes at most one
\* element from the sequence.
C7_FirstOrDefault ==
  fPc # "idle" =>
    /\ fPc = "returned"
    /\ fRet.raised = ""
    /\ IF fArg.kind = "counter"
         THEN fRet.value = fArg.at - 1
         ELSE /\ fRet.value = IF fArg.items = <<>> THEN fOr ELSE fArg.items[1]
              /\ fArg.at <= 1

\* An entry of d that filterdict is to keep.
KeptEntry(e) == Truthy(dFunc, e[2])

\* C8: filterdict returns the entries of d whose value satisfies the
\* predicate, in d's iteration order, and d has the same entries after the
\* call as before it.
C8_FilterdictFrame ==
  /\ [](dPc = "returned" => dRet = SelectSeq(dD, KeptEntry))
  /\ [][dD' = dD]_vars

\* C8's case: of three entries the middle one is dropped, as in
\* {'a': 1, 'b': 0, 'c': 2} with v > 0.
C8_Witness ==
  /\ dPc = "returned"
  /\ dFunc = "positive"
  /\ Len(dD) = 3
  /\ dRet = <<dD[1], dD[3]>>
  /\ dD[2][2] <= 0

\* The field-name to value assignment of a call's keyword arguments.
Assignment(attrs) == {attrs[i] : i \in DOMAIN attrs}

\* C9: two records built by immutable from the same name and the same
\* field-name to value assignment compare equal.
C9_RecordEquality ==
  iEq # "unset" =>
    LET a == iArgs[1]
        b == iArgs[2]
    IN (a.name = b.name /\ Assignment(a.attrs) = Assignment(b.attrs))
         => iEq = "True"

\* The offsets at which an alphanumeric token of 1 to 15 characters stands
\* between "(" and ")".
TokenLenAt(text, p) ==
  IF /\ p > 0
     /\ text[p] = "("
     /\ AlnumRun(text, p) \in 1..15
     /\ p + AlnumRun(text, p) < Len(text)
     /\ text[p + AlnumRun(text, p) + 1] = ")"
  THEN AlnumRun(text, p) ELSE 0

TokenStarts(text) == {p \in 1..Len(text) : TokenLenAt(text, p) > 0}

\* C10: findall of Pattern.emoticon returns, in text order, exactly the
\* alphanumeric tokens of length 1 to 15 enclosed by "(" and ")", without the
\* parentheses; a longer token and "()" give no match.
C10_EmoticonFindall ==
  ePc = "done" =>
    /\ Len(eMatches) = Cardinality(TokenStarts(eText))
    /\ {eStarts[k] : k \in DOMAIN eStarts} = TokenStarts(eText)
    /\ \A k \in DOMAIN eStarts :
         /\ k > 1 => eStarts[k - 1] < eStarts[k]
         /\ eMatches[k] =
              SubSeq(eText, eStarts[k] + 1, eStarts[k] + TokenLenAt(eText, eStarts[k]))
         /\ \A c \in DOMAIN eMatches[k] : IsAlnum(eMatches[k][c])

\* C10's case: a text with a short emoticon, which is found, and a
\* parenthesised token of 16 characters, which is not.
C10_Witness ==
  /\ ePc = "done"
  /\ Len(eMatches) = 1
  /\ eMatches[1] = <<"a">>
  /\ \E p \in 1..Len(eText) :
       /\ eText[p] = "("
       /\ AlnumRun(eText, p) = 16
       /\ LookAhead(eText, p + 16)

\* C4: consuming HTML.iter(content) never raises and yields at least one
\* element, whatever the bytes.
C4_IterTotal ==
  /\ hPc # "raised"
  /\ hPc = "done" => Len(hOut) >= 1

\* C5: on content that is no markup at all the sequence is exactly one
\* element, a paragraph whose text is the content.
C5_SingleParagraph ==
  (hPc = "done" /\ hContent # <<>>) => hOut = <<Element("p", hContent)>>

====
